---- MODULE Spec2Model ----
(***************************************************************************)
(* Connect Four board (environment/board.py, state.py, player.py) and the  *)
(* sparse Q-table (sparse_q_learning/memory.py) as state machines.         *)
(*                                                                         *)
(* Conventions.  Python's Optional[X] is a sequence of length 0 (None) or  *)
(* 1 (a value); the (row, col) tuple of _last_move is a sequence of length *)
(* 2 and None the empty one.  Grids are indexed from 0 as in the source.   *)
(* numpy arrays are objects with identity: `arrays` is the heap, a grid    *)
(* per array id, and _board and GameState.board hold array ids.            *)
(***************************************************************************)
EXTENDS Integers, Sequences, FiniteSets, TLC

\* ------------------------------------------------------------------ bounds
Rows == 4
Cols == 4
MaxArrays == 3
MaxCalls == 8
KeyRows == 2
KeyCols == 2
MaxTableCalls == 3
MaxFileCalls == 4
MaxConfigLearns == 4
MaxAgentCalls == 3
MaxAgentLearns == 2
MaxEpisodes == 2
MaxTrainMoves == 14
ChoiceWidth == 2
FloatPrecision == 40000

\* ------------------------------------------------------------------ Player
EMPTY == 0
PLAYER_1 == 1
PLAYER_2 == 2

None == <<>>
Some(x) == <<x>>

\* A plausible slip: the branch for PlayerTwo is missing.
next_player_one_way(self) == IF self = PLAYER_1 THEN PLAYER_2 ELSE self

\* A plausible slip: the turn cycles through the values of the enumeration.
next_player_by_value(self) == (self + 1) % 3

next_player(self) ==
    IF self = PLAYER_1 THEN PLAYER_2
    ELSE IF self = PLAYER_2 THEN PLAYER_1
    ELSE self

\* ------------------------------------------------------------------- state
VARIABLES
    arrays,           \* heap of numpy arrays: array id -> grid, None when unallocated
    _board,           \* ConnectFourBoard._board: the id of the board's array
    _current_player,  \* ConnectFourBoard._current_player
    _last_move,       \* ConnectFourBoard._last_move: None or <<row, col>>
    _game_over,       \* ConnectFourBoard._game_over
    _winner,          \* ConnectFourBoard._winner: None or Some(player)
    state,            \* a GameState held by a caller: None or Some(snapshot)
    call,             \* the most recent API call: operation, arguments, return value
    calls,            \* number of API calls made (bounded runs only)
    _q_values,        \* SparseQTable._q_values: state key -> action-value array
    file,             \* the model file at filepath: None or Some(JSON document)
    written,          \* history: the (key, action) pairs set_value was called on
    saved,            \* history: None or Some(the mapping the last save wrote out)
    key_states,       \* two GameStates handed to _get_state_key
    keys,             \* the keys computed for them: None or Some(key) each
    config,           \* the AgentConfig constructed, QLearningAgent.config: None or Some(it)
    epsilon,          \* QLearningAgent.epsilon: None before the agent exists
    raised,           \* the exception the last call raised: None or Some(name)
    learns,           \* history: number of calls of learn
    learned,          \* history: None or Some(arguments of the last call of learn)
    training,         \* Trainer.config: None or Some(TrainingConfig)
    pc,               \* where train() stands: "idle", "for", "while", "done", "raised"
    episode,          \* the loop variable of train(): episodes completed
    moves_made,       \* moves_made of the episode being played
    wins,             \* Trainer.wins
    draws,            \* Trainer.draws
    episode_lengths,  \* Trainer.episode_lengths
    progress          \* history: number of calls of progress_callback

boardVars == <<arrays, _board, _current_player, _last_move, _game_over, _winner>>
tableVars == <<_q_values, file, written, saved>>
keyVars == <<key_states, keys>>
agentVars == <<config, epsilon, raised, learns, learned>>
trainVars == <<training, pc, episode, moves_made, wins, draws, episode_lengths, progress>>
vars == <<arrays, _board, _current_player, _last_move, _game_over, _winner,
          state, call, calls, _q_values, file, written, saved, key_states, keys,
          config, epsilon, raised, learns, learned,
          training, pc, episode, moves_made, wins, draws, episode_lengths, progress>>

ArrIds == 1..MaxArrays
Range0(n) == 0..(n - 1)

\* The grid the board currently refers to.
Grid == arrays[_board]

\* ------------------------------------------------------------ numpy helpers
np_zeros(rows, cols) == [r \in Range0(rows) |-> [c \in Range0(cols) |-> 0]]

np_copy(grid) == [r \in DOMAIN grid |-> [c \in DOMAIN grid[r] |-> grid[r][c]]]

\* Array ids the caller's snapshot points to.
SnapRefs == {state[i].board : i \in DOMAIN state}

\* A fresh array gets the lowest id no live reference points to.
Alloc(live) == CHOOSE id \in ArrIds \ live : \A j \in ArrIds \ live : id <= j

\* Arrays no reference points to are reclaimed.
Collect(heap, live) == [id \in ArrIds |-> IF id \in live THEN heap[id] ELSE None]

\* ------------------------------------------------------------- board logic
InList(x, list) == \E i \in DOMAIN list : list[i] = x

\* [col for col, cell in enumerate(row) if cell == EMPTY], from column col on.
RECURSIVE EmptyColumns(_, _)
EmptyColumns(row, col) ==
    IF col >= Cardinality(DOMAIN row) THEN <<>>
    ELSE (IF row[col] = EMPTY THEN <<col>> ELSE <<>>) \o EmptyColumns(row, col + 1)

\* A plausible slip: the bottom row is read instead of the top row.
ValidMovesOf_bottom(grid) == EmptyColumns(grid[Rows - 1], 0)

\* ConnectFourBoard.get_valid_moves on a board whose array holds `grid`.
ValidMovesOf(grid) == EmptyColumns(grid[0], 0)

get_valid_moves == ValidMovesOf(Grid)

RECURSIVE _count_consecutive(_, _, _, _, _, _)
_count_consecutive(grid, row, col, row_dir, col_dir, player) ==
    LET current_row == row + row_dir
        current_col == col + col_dir
    IN  IF /\ 0 <= current_row /\ current_row < Rows
           /\ 0 <= current_col /\ current_col < Cols
           /\ grid[current_row][current_col] = player
        THEN 1 + _count_consecutive(grid, current_row, current_col, row_dir, col_dir, player)
        ELSE 0

\* A plausible slip: the second diagonal pairs two directions that are not opposite.
directions_skewed == <<
    << <<0, 1>>, <<0, -1>> >>,
    << <<1, 0>>, <<-1, 0>> >>,
    << <<1, 1>>, <<-1, -1>> >>,
    << <<1, -1>>, <<-1, -1>> >> >>

directions == <<
    << <<0, 1>>, <<0, -1>> >>,
    << <<1, 0>>, <<-1, 0>> >>,
    << <<1, 1>>, <<-1, -1>> >>,
    << <<1, -1>>, <<-1, 1>> >> >>

WinCount == 4

\* A plausible slip: only the first direction of each pair is counted.
RECURSIVE CheckDirections_one_sided(_, _, _, _, _)
CheckDirections_one_sided(grid, row, col, player, i) ==
    IF i > Len(directions) THEN FALSE
    ELSE LET dir1 == directions[i][1]
             count == 1 + _count_consecutive(grid, row, col, dir1[1], dir1[2], player)
         IN  IF count >= WinCount THEN TRUE
             ELSE CheckDirections_one_sided(grid, row, col, player, i + 1)

\* The loop of _check_win over the direction pairs, from pair i on.
RECURSIVE CheckDirections(_, _, _, _, _)
CheckDirections(grid, row, col, player, i) ==
    IF i > Len(directions) THEN FALSE
    ELSE LET dir1 == directions[i][1]
             dir2 == directions[i][2]
             count == 1 + _count_consecutive(grid, row, col, dir1[1], dir1[2], player)
                        + _count_consecutive(grid, row, col, dir2[1], dir2[2], player)
         IN  IF count >= WinCount THEN TRUE
             ELSE CheckDirections(grid, row, col, player, i + 1)

_check_win(grid, last_move) ==
    IF last_move = None THEN FALSE
    ELSE LET row == last_move[1]
             col == last_move[2]
             player == grid[row][col]
         IN  CheckDirections(grid, row, col, player, 1)

\* A plausible slip: the column is scanned from the top row down.
RECURSIVE DropRow_top(_, _, _)
DropRow_top(grid, column, row) ==
    IF row < 0 THEN -1
    ELSE IF grid[Rows - 1 - row][column] = EMPTY THEN Rows - 1 - row
    ELSE DropRow_top(grid, column, row - 1)

\* The row the loop of make_move stops at, scanning up from `row`: the
\* lowest empty cell of the column, -1 when the loop runs out.
RECURSIVE DropRow(_, _, _)
DropRow(grid, column, row) ==
    IF row < 0 THEN -1
    ELSE IF grid[row][column] = EMPTY THEN row
    ELSE DropRow(grid, column, row - 1)

\* A plausible slip: the terminal flag is not consulted.
MoveRejected_ignoring_game_over(column) == ~InList(column, get_valid_moves)

\* The guard of make_move.
MoveRejected(column) == _game_over \/ ~InList(column, get_valid_moves)

\* A plausible slip: the draw test comes first, so a full board is always a draw.
MoveOutcome_draw_first(placed, last_move) ==
    IF ValidMovesOf(placed) = <<>>
    THEN [game_over |-> TRUE, winner |-> _winner]
    ELSE IF _check_win(placed, last_move)
    THEN [game_over |-> TRUE, winner |-> Some(_current_player)]
    ELSE [game_over |-> _game_over, winner |-> _winner]

\* A plausible slip: the winner is read after the player has been switched.
MoveOutcome_winner_after_switch(placed, last_move) ==
    IF _check_win(placed, last_move)
    THEN [game_over |-> TRUE, winner |-> Some(next_player(_current_player))]
    ELSE IF ValidMovesOf(placed) = <<>>
    THEN [game_over |-> TRUE, winner |-> _winner]
    ELSE [game_over |-> _game_over, winner |-> _winner]

\* A plausible slip: the draw test is left out.
MoveOutcome_without_draw(placed, last_move) ==
    IF _check_win(placed, last_move)
    THEN [game_over |-> TRUE, winner |-> Some(_current_player)]
    ELSE [game_over |-> _game_over, winner |-> _winner]

\* The win and draw tests of make_move after the token is placed.
MoveOutcome(placed, last_move) ==
    IF _check_win(placed, last_move)
    THEN [game_over |-> TRUE, winner |-> Some(_current_player)]
    ELSE IF ValidMovesOf(placed) = <<>>
    THEN [game_over |-> TRUE, winner |-> _winner]
    ELSE [game_over |-> _game_over, winner |-> _winner]

Call(op, args, ret, over) ==
    [op |-> op, args |-> args, ret |-> ret, game_over_before |-> over]

make_move(column) ==
    IF MoveRejected(column)
    THEN /\ call' = Call("make_move", <<column>>, Some(FALSE), _game_over)
         /\ UNCHANGED boardVars
    ELSE LET row == DropRow(Grid, column, Rows - 1)
             placed == IF row >= 0
                       THEN [Grid EXCEPT ![row][column] = _current_player]
                       ELSE Grid
             last_move == IF row >= 0 THEN <<row, column>> ELSE _last_move
             outcome == MoveOutcome(placed, last_move)
         IN  /\ arrays' = [arrays EXCEPT ![_board] = placed]
             /\ _last_move' = last_move
             /\ _game_over' = outcome.game_over
             /\ _winner' = outcome.winner
             /\ _current_player' = next_player(_current_player)
             /\ call' = Call("make_move", <<column>>, Some(TRUE), _game_over)
             /\ UNCHANGED _board

\* A plausible slip: the winner of the previous game is kept.
reset_keeping_winner ==
    LET id == Alloc(SnapRefs)
    IN  /\ _board' = id
        /\ arrays' = [Collect(arrays, SnapRefs) EXCEPT ![id] = np_zeros(Rows, Cols)]
        /\ _current_player' = PLAYER_1
        /\ _last_move' = None
        /\ _game_over' = FALSE
        /\ _winner' = _winner
        /\ call' = Call("reset", <<>>, None, _game_over)

\* _reset binds _board to a new zero array; the old array is reclaimed
\* unless a snapshot still refers to it.
reset ==
    LET id == Alloc(SnapRefs)
    IN  /\ _board' = id
        /\ arrays' = [Collect(arrays, SnapRefs) EXCEPT ![id] = np_zeros(Rows, Cols)]
        /\ _current_player' = PLAYER_1
        /\ _last_move' = None
        /\ _game_over' = FALSE
        /\ _winner' = None
        /\ call' = Call("reset", <<>>, None, _game_over)

\* A plausible slip: the snapshot is given the board's own array.
get_state_board_shared == _board

\* get_state: the array the snapshot's board field refers to (a copy made by
\* _board.copy()), the heap after the copy, and the GameState built around it.
\* The snapshot the caller held before is dropped when the new one is bound.
get_state_board == Alloc({_board})

get_state_arrays ==
    [Collect(arrays, {_board, get_state_board})
        EXCEPT ![get_state_board] = np_copy(Grid)]

get_state_result ==
    [board |-> get_state_board,
     current_player |-> _current_player,
     last_move |-> _last_move,
     game_over |-> _game_over,
     winner |-> _winner]

get_state ==
    /\ arrays' = get_state_arrays
    /\ state' = Some(get_state_result)
    /\ call' = Call("get_state", <<>>, None, _game_over)
    /\ UNCHANGED <<_board, _current_player, _last_move, _game_over, _winner>>

\* The fields of a GameState as values: its board reference followed into the heap.
View(heap, s) ==
    [board |-> heap[s.board],
     current_player |-> s.current_player,
     last_move |-> s.last_move,
     game_over |-> s.game_over,
     winner |-> s.winner]

\* GameState.get_valid_moves, on the fields of a snapshot.
GameState_get_valid_moves(s) == EmptyColumns(s.board[0], 0)

\* ------------------------------------------------------------------ floats
\* A Python float is a fraction <<numerator, denominator>> in lowest terms
\* with a positive denominator (0.1 is <<1, 10>>).  Arithmetic is exact as
\* long as the denominator of the result stays within FloatPrecision; a
\* result beyond it is rounded down to a fraction within it, as a float of
\* limited precision.  float("-inf") is <<-1, 0>>, which the comparison puts
\* below every fraction.
Abs(x) == IF x < 0 THEN -x ELSE x

RECURSIVE Gcd(_, _)
Gcd(a, b) == IF b = 0 THEN a ELSE Gcd(b, a % b)

RECURSIVE Float(_, _)
Float(n, d) ==
    LET g == Gcd(Abs(n), d)
        num == n \div g
        den == d \div g
        scale == (den + FloatPrecision - 1) \div FloatPrecision
    IN  IF den <= FloatPrecision THEN <<num, den>>
        ELSE Float(num \div scale, den \div scale)

NegInf == <<-1, 0>>

Add(x, y) ==
    LET g == Gcd(x[2], y[2])
    IN  Float(x[1] * (y[2] \div g) + y[1] * (x[2] \div g), (x[2] \div g) * y[2])
Sub(x, y) == Add(x, <<-y[1], y[2]>>)
Mul(x, y) == Float(x[1] * y[1], x[2] * y[2])

\* x < y
Less(x, y) == x[1] * y[2] < y[1] * x[2]

\* x <= y
LessEq(x, y) == x[1] * y[2] <= y[1] * x[2]

\* max(x, y) of two arguments: y only when y > x.
max(x, y) == IF Less(x, y) THEN y ELSE x

\* ------------------------------------------------------------ SparseQTable
\* The methods take the fields of a GameState (View).  Strings are sequences
\* of one-character strings.  An ndarray is its dtype and its elements,
\* indexed from 0.
NumActions == 7
_default_value == Float(0, 1)
ItemSize == 8

HexDigits == <<"0", "1", "2", "3", "4", "5", "6", "7", "8", "9",
               "a", "b", "c", "d", "e", "f">>

\* Byte n (0 the least significant) of a non-negative integer.
RECURSIVE ByteOf(_, _)
ByteOf(value, n) == IF n = 0 THEN value % 256 ELSE ByteOf(value \div 256, n - 1)

NumRows(grid) == Cardinality(DOMAIN grid)
NumCols(grid) == Cardinality(DOMAIN grid[0])

\* ndarray.tobytes() of an int64 array: the cells in row-major order, each as
\* ItemSize little-endian bytes.
tobytes(grid) ==
    LET cols == NumCols(grid)
    IN  [i \in 1..(NumRows(grid) * cols * ItemSize) |->
            LET cell == (i - 1) \div ItemSize
                byte == (i - 1) % ItemSize
            IN  ByteOf(grid[cell \div cols][cell % cols], byte)]

\* repr() of one byte below 0x09: a four-character hexadecimal escape.  The
\* bytes of a grid of Player values are 0, 1 and 2.
ByteRepr(b) == <<"\\", "x", HexDigits[(b \div 16) + 1], HexDigits[(b % 16) + 1]>>

\* str() of a bytes object, as the f-string formats it: b'...'.
bytes_str(bytes) ==
    <<"b", "'">>
    \o [i \in 1..(4 * Len(bytes)) |-> ByteRepr(bytes[((i - 1) \div 4) + 1])[((i - 1) % 4) + 1]]
    \o <<"'">>

\* str() of a Player value (0, 1 or 2).
int_str(n) == <<HexDigits[n + 1]>>

\* A plausible slip: the player to move is left out of the key.
_get_state_key_without_player(s) == bytes_str(tobytes(s.board))

_get_state_key(s) == bytes_str(tobytes(s.board)) \o int_str(s.current_player)

\* The snapshots handed to the table: the opening of a game.
OpeningGrid(column) == [np_zeros(Rows, Cols) EXCEPT ![Rows - 1][column] = PLAYER_1]

StateInputs ==
    {[board |-> np_zeros(Rows, Cols), current_player |-> PLAYER_1, last_move |-> None,
      game_over |-> FALSE, winner |-> None],
     [board |-> OpeningGrid(0), current_player |-> PLAYER_2, last_move |-> <<Rows - 1, 0>>,
      game_over |-> FALSE, winner |-> None]}

\* The snapshots handed to the agent.  EmptyState: the start of a game.
EmptyState ==
    [board |-> np_zeros(Rows, Cols), current_player |-> PLAYER_1, last_move |-> None,
     game_over |-> FALSE, winner |-> None]

\* Column 0 is full of alternating tokens, PlayerOne's at the bottom.
FullColumnState ==
    [board |-> [r \in Range0(Rows) |-> [c \in Range0(Cols) |->
                  IF c # 0 THEN EMPTY
                  ELSE IF (Rows - 1 - r) % 2 = 0 THEN PLAYER_1 ELSE PLAYER_2]],
     current_player |-> IF Rows % 2 = 0 THEN PLAYER_1 ELSE PLAYER_2,
     last_move |-> <<0, 0>>, game_over |-> FALSE, winner |-> None]

\* PlayerOne has won with four tokens in column 0 against three in column 1.
WonState ==
    [board |-> [r \in Range0(Rows) |-> [c \in Range0(Cols) |->
                  IF c = 0 /\ r >= Rows - 4 THEN PLAYER_1
                  ELSE IF c = 1 /\ r >= Rows - 3 THEN PLAYER_2
                  ELSE EMPTY]],
     current_player |-> PLAYER_2, last_move |-> <<Rows - 4, 0>>,
     game_over |-> TRUE, winner |-> Some(PLAYER_1)]

\* A GameState built by hand: the grid is full and the terminal flag is not set.
StuckState ==
    [board |-> [r \in Range0(Rows) |-> [c \in Range0(Cols) |->
                  IF ((c \div 2) + r) % 2 = 0 THEN PLAYER_1 ELSE PLAYER_2]],
     current_player |-> PLAYER_1, last_move |-> <<0, Cols - 1>>,
     game_over |-> FALSE, winner |-> None]

AgentStateInputs == {EmptyState, FullColumnState}
NextStateInputs == {FullColumnState, WonState, StuckState}

\* The key of each input snapshot, computed once.
KeyTable == [s \in StateInputs \cup AgentStateInputs \cup NextStateInputs |-> _get_state_key(s)]

\* The characters one cell of the grid contributes to the key, computed once
\* for each Player value: the text of its ItemSize bytes.
CellText ==
    [v \in {EMPTY, PLAYER_1, PLAYER_2} |->
        LET text == bytes_str(tobytes([r \in {0} |-> [c \in {0} |-> v]]))
        IN  SubSeq(text, 3, Len(text) - 1)]

\* The text of the cells from cell i on, in row-major order.
RECURSIVE CellsText(_, _)
CellsText(grid, i) ==
    IF i = NumRows(grid) * NumCols(grid) THEN <<>>
    ELSE CellText[grid[i \div NumCols(grid)][i % NumCols(grid)]] \o CellsText(grid, i + 1)

\* self._get_state_key(state) as the methods call it: the key of an input
\* snapshot is looked up, the key of any other snapshot is put together from
\* the text of its cells, which is the value of _get_state_key(state).
StateKey(s) ==
    IF s \in DOMAIN KeyTable THEN KeyTable[s]
    ELSE <<"b", "'">> \o CellsText(s.board, 0) \o <<"'">> \o int_str(s.current_player)

EmptyDict == [k \in {} |-> None]

DictSet(dict, k, v) == [x \in DOMAIN dict \cup {k} |-> IF x = k THEN v ELSE dict[x]]

np_full(n, value) == [dtype |-> "float64", data |-> [i \in Range0(n) |-> value]]

\* A plausible slip: the entry is rebuilt on every access.
Materialized_always(state_key) == DictSet(_q_values, state_key, np_full(NumActions, _default_value))

\* The lazy materialization both methods start with, on a table.
Materialize(table, state_key) ==
    IF state_key \notin DOMAIN table
    THEN DictSet(table, state_key, np_full(NumActions, _default_value))
    ELSE table

\* _q_values after the materialization.
Materialized(state_key) == Materialize(_q_values, state_key)

get_value(s, action) ==
    LET state_key == StateKey(s)
        table == Materialized(state_key)
    IN  /\ _q_values' = table
        /\ call' = Call("get_value", <<state_key, action>>,
                        Some(table[state_key].data[action]), FALSE)

set_value(s, action, value) ==
    LET state_key == StateKey(s)
        table == Materialized(state_key)
    IN  /\ _q_values' = [table EXCEPT ![state_key].data[action] = value]
        /\ call' = Call("set_value", <<state_key, action, value>>, None, FALSE)

\* ndarray.tolist(): Python floats for a float64 array, ints for an int64 one.
tolist(a) ==
    [i \in 1..Cardinality(DOMAIN a.data) |->
        [type |-> IF a.dtype = "float64" THEN "float" ELSE "int", val |-> a.data[i - 1]]]

\* np.array(list): float64 when the list is empty or holds a float.
np_array(list) ==
    [dtype |-> IF list = <<>> \/ \E i \in DOMAIN list : list[i].type = "float"
               THEN "float64" ELSE "int64",
     data |-> [i \in Range0(Len(list)) |-> list[i + 1].val]]

\* float.__repr__ writes at most 17 significant digits.
ReprDigits == 17

\* The decimal digits of num / den (num < den) after the point.
RECURSIVE FracDigits(_, _, _)
FracDigits(num, den, left) ==
    IF num = 0 \/ left = 0 THEN <<>>
    ELSE <<(num * 10) \div den>> \o FracDigits((num * 10) % den, den, left - 1)

\* json: a number is written as sign, whole part and, for a float, the
\* digits after the point (float.__repr__: 1.0 is "1.0", -0.5 is "-0.5",
\* 0.19 is "0.19").
json_number(x) ==
    [neg |-> x.val[1] < 0,
     whole |-> Abs(x.val[1]) \div x.val[2],
     frac |-> IF x.type = "float"
              THEN Some(IF Abs(x.val[1]) % x.val[2] = 0 THEN <<0>>
                        ELSE FracDigits(Abs(x.val[1]) % x.val[2], x.val[2], ReprDigits))
              ELSE None]

\* The number a sequence of decimal digits writes, and the power of ten of its length.
RECURSIVE DigitsValue(_, _)
DigitsValue(digits, i) == IF i = 0 THEN 0 ELSE DigitsValue(digits, i - 1) * 10 + digits[i]

RECURSIVE TenTo(_)
TenTo(k) == IF k = 0 THEN 1 ELSE 10 * TenTo(k - 1)

\* A literal with a fraction is read as a float, one without as an int.
json_parse_number(lit) ==
    IF lit.frac # None
    THEN LET digits == lit.frac[1]
             scale == TenTo(Len(digits))
         IN  [type |-> "float",
              val |-> Float((IF lit.neg THEN -1 ELSE 1)
                               * (lit.whole * scale + DigitsValue(digits, Len(digits))),
                            scale)]
    ELSE [type |-> "int", val |-> Float((IF lit.neg THEN -1 ELSE 1) * lit.whole, 1)]

\* A JSON string: each character of the key, a backslash doubled.
json_string(str) == [i \in DOMAIN str |-> IF str[i] = "\\" THEN "\\\\" ELSE str[i]]

json_parse_string(text) == [i \in DOMAIN text |-> IF text[i] = "\\\\" THEN "\\" ELSE text[i]]

\* json.dump of {key: values.tolist()}: the members of one JSON object.
json_dump(dict) ==
    {<<json_string(k), [i \in DOMAIN tolist(dict[k]) |-> json_number(tolist(dict[k])[i])]>> :
        k \in DOMAIN dict}

\* json.load followed by the dict comprehension of load.
LoadedDict(doc) ==
    [k \in {json_parse_string(m[1]) : m \in doc} |->
        LET m == CHOOSE m \in doc : json_parse_string(m[1]) = k
        IN  np_array([i \in DOMAIN m[2] |-> json_parse_number(m[2][i])])]

save ==
    /\ file' = Some(json_dump(_q_values))
    /\ call' = Call("save", <<>>, None, FALSE)
    /\ UNCHANGED _q_values

\* A plausible slip: the loaded entries are merged into the table.
load_merging ==
    /\ file # None
    /\ _q_values' = [k \in DOMAIN _q_values \cup DOMAIN LoadedDict(file[1]) |->
                        IF k \in DOMAIN LoadedDict(file[1])
                        THEN LoadedDict(file[1])[k] ELSE _q_values[k]]
    /\ call' = Call("load", <<>>, None, FALSE)
    /\ UNCHANGED file

\* load raises when the file does not exist (open fails); then nothing changes.
load ==
    /\ file # None
    /\ _q_values' = LoadedDict(file[1])
    /\ call' = Call("load", <<>>, None, FALSE)
    /\ UNCHANGED file

\* ------------------------------------------------------------- AgentConfig
\* A plausible slip: the ends of the interval are rejected.
__post_init___open_interval(cfg) ==
    IF ~(Less(Float(0, 1), cfg.learning_rate) /\ Less(cfg.learning_rate, Float(1, 1)))
    THEN Some("ValueError")
    ELSE IF ~(Less(Float(0, 1), cfg.discount_factor) /\ Less(cfg.discount_factor, Float(1, 1)))
    THEN Some("ValueError")
    ELSE None

\* The exception __post_init__ raises, None when it returns.
__post_init__(cfg) ==
    IF ~(LessEq(Float(0, 1), cfg.learning_rate) /\ LessEq(cfg.learning_rate, Float(1, 1)))
    THEN Some("ValueError")
    ELSE IF ~(LessEq(Float(0, 1), cfg.discount_factor) /\ LessEq(cfg.discount_factor, Float(1, 1)))
    THEN Some("ValueError")
    ELSE None

\* AgentConfig(...): the dataclass is built from its fields, then validated.
AgentConfig(learning_rate, discount_factor, initial_epsilon, epsilon_decay, min_epsilon) ==
    LET cfg == [learning_rate |-> learning_rate,
                discount_factor |-> discount_factor,
                initial_epsilon |-> initial_epsilon,
                epsilon_decay |-> epsilon_decay,
                min_epsilon |-> min_epsilon]
    IN  /\ raised' = __post_init__(cfg)
        /\ config' = IF __post_init__(cfg) = None THEN Some(cfg) ELSE config
        /\ call' = Call("AgentConfig", <<cfg>>, None, FALSE)

\* The defaults of the dataclass.
DefaultAgentConfig ==
    [learning_rate |-> Float(1, 10),
     discount_factor |-> Float(19, 20),
     initial_epsilon |-> Float(1, 1),
     epsilon_decay |-> Float(199, 200),
     min_epsilon |-> Float(1, 100)]

\* ----------------------------------------------------------- QLearningAgent
\* QLearningAgent(config): an empty table, epsilon at its initial value.
QLearningAgent ==
    /\ _q_values' = EmptyDict
    /\ epsilon' = config[1].initial_epsilon
    /\ call' = Call("QLearningAgent", <<>>, None, FALSE)

\* range(7) in choose_action.
ActionCount == 7

\* What random.choice(list) and np.random.choice(list) may return: the draws
\* explored are the first ChoiceWidth elements of the list.
random_choice(list) == {list[i] : i \in {j \in DOMAIN list : j <= ChoiceWidth}}

\* A plausible slip: ties go to the largest index.
np_argmax_last(list) ==
    CHOOSE i \in DOMAIN list :
        \A j \in DOMAIN list :
            IF j > i THEN Less(list[j], list[i]) ELSE ~Less(list[i], list[j])

\* np.argmax: the first index holding the maximum.
np_argmax(list) ==
    CHOOSE i \in DOMAIN list :
        \A j \in DOMAIN list :
            IF j < i THEN Less(list[j], list[i]) ELSE ~Less(list[i], list[j])

\* A plausible slip: the columns that are not valid keep their values.
q_values_unmasked(table, s) ==
    [i \in Range0(ActionCount) |-> Materialize(table, StateKey(s))[StateKey(s)].data[i]]

\* q_values of choose_action: the table's value per column, then -inf for
\* every column that is not a valid move.
q_values(table, s) ==
    LET state_key == StateKey(s)
        valid_moves == GameState_get_valid_moves(s)
        row == Materialize(table, state_key)[state_key].data
    IN  [i \in Range0(ActionCount) |-> IF InList(i, valid_moves) THEN row[i] ELSE NegInf]

\* A plausible slip: the explore branch draws from every column of the table.
choose_action_any_column(table, s) ==
    (IF Less(Float(0, 1), epsilon)
     THEN {[branch |-> "explore", action |-> a, table |-> table] :
              a \in random_choice([i \in 1..ActionCount |-> i - 1])}
     ELSE {})
    \cup
    (IF Less(epsilon, Float(1, 1))
     THEN {[branch |-> "exploit", action |-> np_argmax(q_values(table, s)),
            table |-> Materialize(table, StateKey(s))]}
     ELSE {})

\* choose_action(state) on an agent whose table is `table`: every outcome
\* the random draw allows, as branch taken, column returned and table after.
\* random.random() is in [0, 1): the draw can fall below epsilon when
\* epsilon > 0 and at or above it when epsilon < 1.
choose_action(table, s) ==
    (IF Less(Float(0, 1), epsilon)
     THEN {[branch |-> "explore", action |-> a, table |-> table] :
              a \in random_choice(GameState_get_valid_moves(s))}
     ELSE {})
    \cup
    (IF Less(epsilon, Float(1, 1))
     THEN {[branch |-> "exploit", action |-> np_argmax(q_values(table, s)),
            table |-> Materialize(table, StateKey(s))]}
     ELSE {})

\* max() of a non-empty list of floats, from position i on.
RECURSIVE MaxFrom(_, _)
MaxFrom(list, i) == IF i = Len(list) THEN list[i] ELSE max(list[i], MaxFrom(list, i + 1))

\* A plausible slip: the current estimate is not subtracted from the target.
new_q_without_current(current_q, reward, next_q) ==
    Add(current_q,
        Mul(config[1].learning_rate, Add(reward, Mul(config[1].discount_factor, next_q))))

\* The temporal-difference update.
new_q(current_q, reward, next_q) ==
    Add(current_q,
        Mul(config[1].learning_rate,
            Sub(Add(reward, Mul(config[1].discount_factor, next_q)), current_q)))

\* learn(state, action, reward, next_state) on an agent whose table is
\* `table`: the table and epsilon after the call and the exception raised.
\* max() of an empty sequence raises ValueError; by then get_value has
\* materialized the entry of `state`.
\* A plausible slip: the new value is written to the entry of next_state.
learn_writing_next_state(table, s, action, reward, next_state) ==
    LET state_key == StateKey(s)
        read == Materialize(table, state_key)
        current_q == read[state_key].data[action]
        valid_moves == GameState_get_valid_moves(next_state)
    IN  IF ~next_state.game_over /\ valid_moves = <<>>
        THEN [table |-> read, epsilon |-> epsilon, raised |-> Some("ValueError")]
        ELSE LET next_key == StateKey(next_state)
                 looked == Materialize(read, next_key)
                 next_q == IF next_state.game_over THEN Float(0, 1)
                           ELSE MaxFrom([i \in DOMAIN valid_moves |->
                                            looked[next_key].data[valid_moves[i]]], 1)
             IN  [table |-> [looked EXCEPT ![next_key].data[action] =
                                new_q(current_q, reward, next_q)],
                  epsilon |-> max(config[1].min_epsilon, Mul(epsilon, config[1].epsilon_decay)),
                  raised |-> None]

learn(table, s, action, reward, next_state) ==
    LET state_key == StateKey(s)
        read == Materialize(table, state_key)
        current_q == read[state_key].data[action]
        valid_moves == GameState_get_valid_moves(next_state)
    IN  IF ~next_state.game_over /\ valid_moves = <<>>
        THEN [table |-> read, epsilon |-> epsilon, raised |-> Some("ValueError")]
        ELSE LET next_key == StateKey(next_state)
                 looked == IF next_state.game_over THEN read ELSE Materialize(read, next_key)
                 next_q == IF next_state.game_over THEN Float(0, 1)
                           ELSE MaxFrom([i \in DOMAIN valid_moves |->
                                            looked[next_key].data[valid_moves[i]]], 1)
             IN  [table |-> [looked EXCEPT ![state_key].data[action] =
                                new_q(current_q, reward, next_q)],
                  epsilon |-> max(config[1].min_epsilon, Mul(epsilon, config[1].epsilon_decay)),
                  raised |-> None]

\* agent.learn(...) as a step of the agent, whose table is `table` when the
\* call is made.
Learn(table, s, action, reward, next_state) ==
    LET result == learn(table, s, action, reward, next_state)
    IN  /\ _q_values' = result.table
        /\ epsilon' = result.epsilon
        /\ raised' = result.raised
        /\ learns' = learns + 1
        /\ learned' = Some(<<s, action, reward, next_state>>)

\* ------------------------------------------------------------------ Trainer
\* The defaults of TrainingConfig with the given episodes and save_every.
TrainingConfig(episodes, save_every) ==
    [episodes |-> episodes,
     save_every |-> save_every,
     win_reward |-> Float(1, 1),
     lose_reward |-> Float(-1, 1),
     draw_reward |-> Float(1, 10),
     invalid_move_reward |-> Float(-1, 2)]

\* A plausible slip: a win is rewarded as a draw and a draw as a win.
_calculate_reward_swapped(valid_move, s) ==
    IF ~valid_move THEN training[1].invalid_move_reward
    ELSE IF s.game_over
    THEN (IF s.winner = Some(PLAYER_1) THEN training[1].draw_reward
          ELSE IF s.winner = Some(PLAYER_2) THEN training[1].lose_reward
          ELSE training[1].win_reward)
    ELSE Float(0, 1)

\* A plausible slip: the winner is taken to be the player to move.
_calculate_reward_winner_by_turn(valid_move, s) ==
    IF ~valid_move THEN training[1].invalid_move_reward
    ELSE IF s.game_over
    THEN (IF s.winner = None THEN training[1].draw_reward
          ELSE IF s.current_player = PLAYER_1 THEN training[1].win_reward
          ELSE training[1].lose_reward)
    ELSE Float(0, 1)

_calculate_reward(valid_move, s) ==
    IF ~valid_move THEN training[1].invalid_move_reward
    ELSE IF s.game_over
    THEN (IF s.winner = Some(PLAYER_1) THEN training[1].win_reward
          ELSE IF s.winner = Some(PLAYER_2) THEN training[1].lose_reward
          ELSE training[1].draw_reward)
    ELSE Float(0, 1)

\* The GameState get_state() returns once the step's assignments are made.
next_get_state ==
    [board |-> arrays'[_board'],
     current_player |-> _current_player',
     last_move |-> _last_move',
     game_over |-> _game_over',
     winner |-> _winner']

\* for episode in range(episodes): the next episode begins.
TrainEpisodeStart ==
    /\ pc = "for"
    /\ episode < training[1].episodes
    /\ reset
    /\ moves_made' = 0
    /\ pc' = "while"
    /\ UNCHANGED <<state, calls, tableVars, keyVars, agentVars,
                   training, episode, wins, draws, episode_lengths, progress>>

\* The range is exhausted: train() returns.
TrainReturn ==
    /\ pc = "for"
    /\ episode >= training[1].episodes
    /\ pc' = "done"
    /\ UNCHANGED <<boardVars, state, call, calls, tableVars, keyVars, agentVars,
                   training, episode, moves_made, wins, draws, episode_lengths, progress>>

\* One pass of the while loop on the agent's turn: snapshot, choose_action,
\* make_move, snapshot, reward, learn.  An exception of learn leaves train().
TrainAgentTurn ==
    /\ pc = "while"
    /\ ~_game_over
    /\ _current_player = PLAYER_1
    /\ calls < MaxTrainMoves
    /\ LET s == View(get_state_arrays, get_state_result)
       IN  \E outcome \in choose_action(_q_values, s) :
              /\ make_move(outcome.action)
              /\ Learn(outcome.table, s, outcome.action,
                       _calculate_reward(call'.ret[1], next_get_state), next_get_state)
    /\ pc' = IF raised' = None THEN "while" ELSE "raised"
    /\ moves_made' = IF raised' = None THEN moves_made + 1 ELSE moves_made
    /\ calls' = calls + 1
    /\ UNCHANGED <<state, file, written, saved, keyVars, config,
                   training, episode, wins, draws, episode_lengths, progress>>

\* A plausible slip: moves_made is counted in the agent's branch only.
TrainOpponentTurn_uncounted ==
    /\ pc = "while"
    /\ ~_game_over
    /\ _current_player # PLAYER_1
    /\ calls < MaxTrainMoves
    /\ \E action \in random_choice(GameState_get_valid_moves(View(get_state_arrays, get_state_result))) :
          make_move(action)
    /\ moves_made' = moves_made
    /\ calls' = calls + 1
    /\ UNCHANGED <<state, tableVars, keyVars, agentVars,
                   training, pc, episode, wins, draws, episode_lengths, progress>>

\* One pass of the while loop on the opponent's turn: a random valid move.
TrainOpponentTurn ==
    /\ pc = "while"
    /\ ~_game_over
    /\ _current_player # PLAYER_1
    /\ calls < MaxTrainMoves
    /\ \E action \in random_choice(GameState_get_valid_moves(View(get_state_arrays, get_state_result))) :
          make_move(action)
    /\ moves_made' = moves_made + 1
    /\ calls' = calls + 1
    /\ UNCHANGED <<state, tableVars, keyVars, agentVars,
                   training, pc, episode, wins, draws, episode_lengths, progress>>

\* The episodes between two progress reports of train().
ReportEvery == 100

\* A plausible slip: the callback is called inside the block that reports
\* progress, once in ReportEvery episodes.
TrainEpisodeEnd_callback_in_report ==
    /\ pc = "while"
    /\ _game_over
    /\ wins' = Append(wins, IF _winner = Some(PLAYER_1) THEN 1 ELSE 0)
    /\ draws' = Append(draws, IF _winner = None THEN 1 ELSE 0)
    /\ episode_lengths' = Append(episode_lengths, moves_made)
    /\ progress' = IF (episode + 1) % ReportEvery = 0 THEN progress + 1 ELSE progress
    /\ IF (episode + 1) % training[1].save_every = 0
       THEN save /\ saved' = Some(_q_values)
       ELSE UNCHANGED <<file, call, _q_values, saved>>
    /\ episode' = episode + 1
    /\ pc' = "for"
    /\ UNCHANGED <<boardVars, state, calls, written, keyVars, agentVars, training, moves_made>>

\* The game is over: the statistics are recorded, the callback is called,
\* the table is saved when episode + 1 is a multiple of save_every, and the
\* for loop goes on.
TrainEpisodeEnd ==
    /\ pc = "while"
    /\ _game_over
    /\ wins' = Append(wins, IF _winner = Some(PLAYER_1) THEN 1 ELSE 0)
    /\ draws' = Append(draws, IF _winner = None THEN 1 ELSE 0)
    /\ episode_lengths' = Append(episode_lengths, moves_made)
    /\ progress' = progress + 1
    /\ IF (episode + 1) % training[1].save_every = 0
       THEN save /\ saved' = Some(_q_values)
       ELSE UNCHANGED <<file, call, _q_values, saved>>
    /\ episode' = episode + 1
    /\ pc' = "for"
    /\ UNCHANGED <<boardVars, state, calls, written, keyVars, agentVars, training, moves_made>>

\* ------------------------------------------------------------ specifications
InitBoard ==
    /\ _board = 1
    /\ arrays = [id \in ArrIds |-> IF id = 1 THEN np_zeros(Rows, Cols) ELSE None]
    /\ _current_player = PLAYER_1
    /\ _last_move = None
    /\ _game_over = FALSE
    /\ _winner = None

InitCaller ==
    /\ state = None
    /\ call = Call("__init__", <<>>, None, FALSE)
    /\ calls = 0

InitTable ==
    /\ _q_values = EmptyDict
    /\ file = None
    /\ written = {}
    /\ saved = None

InitKeys ==
    /\ key_states = <<>>
    /\ keys = <<>>

\* No AgentConfig and no agent have been constructed.
InitAgent ==
    /\ config = None
    /\ epsilon = None
    /\ raised = None
    /\ learns = 0
    /\ learned = None

\* No Trainer has been constructed.
InitTrainer ==
    /\ training = None
    /\ pc = "idle"
    /\ episode = 0
    /\ moves_made = 0
    /\ wins = <<>>
    /\ draws = <<>>
    /\ episode_lengths = <<>>
    /\ progress = 0

Init == InitBoard /\ InitCaller /\ InitTable /\ InitKeys /\ InitAgent /\ InitTrainer

\* Spec: whole games.  The callers of the repository pass make_move a column
\* taken from the valid moves of a board that is not over (trainer.py:77-93,
\* play_game.py:40); reset may come at any time.
PlayableInputs == IF _game_over THEN {} ELSE {get_valid_moves[i] : i \in DOMAIN get_valid_moves}

MakeMove ==
    /\ \E column \in PlayableInputs : make_move(column)
    /\ UNCHANGED <<state, calls, tableVars, keyVars, agentVars, trainVars>>
Reset == reset /\ UNCHANGED <<state, calls, tableVars, keyVars, agentVars, trainVars>>

Next == MakeMove \/ Reset

Spec == Init /\ [][Next]_vars

\* SpecApi: any caller of the board's interface, up to MaxCalls calls.  Columns
\* passed are every column of the board and one beyond each end; the caller
\* keeps the last snapshot it asked for.
ColumnInputs == (-1)..Cols

ApiMakeMove ==
    /\ calls < MaxCalls
    /\ \E column \in ColumnInputs : make_move(column)
    /\ calls' = calls + 1
    /\ UNCHANGED <<state, tableVars, keyVars, agentVars, trainVars>>
ApiReset ==
    /\ calls < MaxCalls
    /\ reset
    /\ calls' = calls + 1
    /\ UNCHANGED <<state, tableVars, keyVars, agentVars, trainVars>>
ApiGetState ==
    /\ calls < MaxCalls
    /\ get_state
    /\ calls' = calls + 1
    /\ UNCHANGED <<tableVars, keyVars, agentVars, trainVars>>

NextApi == ApiMakeMove \/ ApiReset \/ ApiGetState

SpecApi == Init /\ [][NextApi]_vars

\* SpecKey: _get_state_key on two GameStates of one shape, every grid of
\* KeyRows x KeyCols Player values with either player to move.
KeyGrids == [Range0(KeyRows) -> [Range0(KeyCols) -> {EMPTY, PLAYER_1, PLAYER_2}]]

KeyStates ==
    {[board |-> g, current_player |-> p, last_move |-> None,
      game_over |-> FALSE, winner |-> None] : g \in KeyGrids, p \in {PLAYER_1, PLAYER_2}}

InitKey ==
    /\ InitBoard /\ InitCaller /\ InitTable /\ InitAgent /\ InitTrainer
    /\ key_states \in KeyStates \X KeyStates
    /\ keys = <<None, None>>

GetStateKey ==
    /\ \E i \in {1, 2} :
        /\ keys[i] = None
        /\ keys' = [keys EXCEPT ![i] = Some(_get_state_key(key_states[i]))]
    /\ UNCHANGED <<boardVars, state, call, calls, tableVars, key_states, agentVars, trainVars>>

NextKey == GetStateKey

SpecKey == InitKey /\ [][NextKey]_vars

\* SpecTable: get_value and set_value, up to MaxTableCalls calls, on
\* snapshots of the opening of a game.
ActionInputs == Range0(NumActions)

\* Values written: -0.5 and 1.0 (rewards of TrainingConfig) and 0.1.
ValueInputs == {Float(-1, 2), Float(1, 10), Float(1, 1)}

TableGetValue ==
    /\ calls < MaxTableCalls
    /\ \E s \in StateInputs, action \in ActionInputs : get_value(s, action)
    /\ calls' = calls + 1
    /\ UNCHANGED <<boardVars, state, file, written, saved, keyVars, agentVars, trainVars>>

TableSetValue ==
    /\ calls < MaxTableCalls
    /\ \E s \in StateInputs, action \in ActionInputs, value \in ValueInputs :
        /\ set_value(s, action, value)
        /\ written' = written \cup {<<StateKey(s), action>>}
    /\ calls' = calls + 1
    /\ UNCHANGED <<boardVars, state, file, saved, keyVars, agentVars, trainVars>>

NextTable == TableGetValue \/ TableSetValue

SpecTable == Init /\ [][NextTable]_vars

\* SpecFile: the table with save and load, up to MaxFileCalls calls.
FileActionInputs == {0, NumActions - 1}

FileGetValue ==
    /\ calls < MaxFileCalls
    /\ \E s \in StateInputs, action \in FileActionInputs : get_value(s, action)
    /\ calls' = calls + 1
    /\ UNCHANGED <<boardVars, state, file, written, saved, keyVars, agentVars, trainVars>>

FileSetValue ==
    /\ calls < MaxFileCalls
    /\ \E s \in StateInputs, action \in FileActionInputs, value \in ValueInputs :
        set_value(s, action, value)
    /\ calls' = calls + 1
    /\ UNCHANGED <<boardVars, state, file, written, saved, keyVars, agentVars, trainVars>>

FileSave ==
    /\ calls < MaxFileCalls
    /\ save
    /\ saved' = Some(_q_values)
    /\ calls' = calls + 1
    /\ UNCHANGED <<boardVars, state, written, keyVars, agentVars, trainVars>>

FileLoad ==
    /\ calls < MaxFileCalls
    /\ load
    /\ calls' = calls + 1
    /\ UNCHANGED <<boardVars, state, written, saved, keyVars, agentVars, trainVars>>

NextFile == FileGetValue \/ FileSetValue \/ FileSave \/ FileLoad

SpecFile == Init /\ [][NextFile]_vars

\* SpecConfig: an AgentConfig is constructed from fields inside and outside
\* the accepted ranges; an agent is built around an accepted one and learns,
\* up to MaxConfigLearns times.
RateInputs == {Float(-1, 10), Float(0, 1), Float(1, 2), Float(1, 1), Float(11, 10)}
InitialEpsilonInputs == {Float(1, 1), Float(1, 200)}
EpsilonDecayInputs == {Float(9, 10), Float(1, 2), Float(3, 2), Float(-1, 2)}
MinEpsilonInputs == {Float(1, 100), Float(1, 4)}

ConfigNew ==
    /\ config = None
    /\ \E learning_rate \in RateInputs, discount_factor \in RateInputs,
          initial_epsilon \in InitialEpsilonInputs, epsilon_decay \in EpsilonDecayInputs,
          min_epsilon \in MinEpsilonInputs :
            AgentConfig(learning_rate, discount_factor, initial_epsilon,
                        epsilon_decay, min_epsilon)
    /\ UNCHANGED <<boardVars, state, calls, tableVars, keyVars, epsilon, learns, learned, trainVars>>

ConfigAgent ==
    /\ config # None
    /\ epsilon = None
    /\ QLearningAgent
    /\ UNCHANGED <<boardVars, state, calls, file, written, saved, keyVars,
                   config, raised, learns, learned, trainVars>>

ConfigLearn ==
    /\ epsilon # None
    /\ learns < MaxConfigLearns
    /\ \E next_state \in {FullColumnState, WonState} :
          /\ Learn(_q_values, EmptyState, 0, Float(1, 1), next_state)
          /\ call' = Call("learn", <<EmptyState, 0, Float(1, 1), next_state>>, None, FALSE)
    /\ UNCHANGED <<boardVars, state, calls, file, written, saved, keyVars, config, trainVars>>

NextConfig == ConfigNew \/ ConfigAgent \/ ConfigLearn

SpecConfig == Init /\ [][NextConfig]_vars

\* SpecAgent: any caller of an agent's choose_action and learn, up to
\* MaxAgentCalls calls of which at most MaxAgentLearns are learn.  The agent
\* has the default configuration or a greedy one that never explores.
GreedyAgentConfig ==
    [learning_rate |-> Float(1, 1),
     discount_factor |-> Float(1, 1),
     initial_epsilon |-> Float(0, 1),
     epsilon_decay |-> Float(1, 2),
     min_epsilon |-> Float(0, 1)]

AgentConfigInputs == {DefaultAgentConfig, GreedyAgentConfig}

LearnActionInputs == {0, 1, 2, ActionCount - 1}

InitAgentApi ==
    /\ InitBoard /\ InitCaller /\ InitTable /\ InitKeys /\ InitTrainer
    /\ config \in {Some(cfg) : cfg \in AgentConfigInputs}
    /\ epsilon = config[1].initial_epsilon
    /\ raised = None
    /\ learns = 0
    /\ learned = None

\* The call log of choose_action holds the state and the side of epsilon the
\* random draw fell on.
AgentChoose ==
    /\ calls < MaxAgentCalls
    /\ \E s \in AgentStateInputs : \E outcome \in choose_action(_q_values, s) :
          /\ _q_values' = outcome.table
          /\ call' = Call("choose_action", <<s, outcome.branch>>, Some(outcome.action), FALSE)
    /\ raised' = None
    /\ calls' = calls + 1
    /\ UNCHANGED <<boardVars, state, file, written, saved, keyVars,
                   config, epsilon, learns, learned, trainVars>>

AgentLearn ==
    /\ calls < MaxAgentCalls
    /\ learns < MaxAgentLearns
    /\ \E s \in AgentStateInputs, action \in LearnActionInputs,
          reward \in ValueInputs, next_state \in NextStateInputs :
          /\ Learn(_q_values, s, action, reward, next_state)
          /\ call' = Call("learn", <<s, action, reward, next_state>>, None, FALSE)
    /\ calls' = calls + 1
    /\ UNCHANGED <<boardVars, state, file, written, saved, keyVars, config, trainVars>>

NextAgent == AgentChoose \/ AgentLearn

SpecAgent == InitAgentApi /\ [][NextAgent]_vars

\* SpecTrain: Trainer(config).train(progress_callback) with a callback, for
\* 1..MaxEpisodes episodes and save_every in the same range, up to
\* MaxTrainMoves moves in all.
TrainingConfigInputs ==
    {TrainingConfig(episodes, save_every) :
        episodes \in 1..MaxEpisodes, save_every \in 1..MaxEpisodes}

\* Trainer.__init__ has run and train() stands before its for loop.
InitTrain ==
    /\ InitBoard /\ InitCaller /\ InitTable /\ InitKeys
    /\ config = Some(DefaultAgentConfig)
    /\ epsilon = DefaultAgentConfig.initial_epsilon
    /\ raised = None
    /\ learns = 0
    /\ learned = None
    /\ training \in {Some(cfg) : cfg \in TrainingConfigInputs}
    /\ pc = "for"
    /\ episode = 0
    /\ moves_made = 0
    /\ wins = <<>>
    /\ draws = <<>>
    /\ episode_lengths = <<>>
    /\ progress = 0

NextTrain ==
    \/ TrainEpisodeStart
    \/ TrainReturn
    \/ TrainAgentTurn
    \/ TrainOpponentTurn
    \/ TrainEpisodeEnd

SpecTrain == InitTrain /\ [][NextTrain]_vars

\* ------------------------------------------------------------------ claims
\* Vocabulary of the claims, stated on the grid and independent of the
\* operators above.
InBoard(r, c) == r \in Range0(Rows) /\ c \in Range0(Cols)

ColumnHeight(grid, c) == Cardinality({r \in Range0(Rows) : grid[r][c] # EMPTY})

ColumnFull(grid, c) == \A r \in Range0(Rows) : grid[r][c] # EMPTY

NoPlayableColumn(grid) == \A c \in Range0(Cols) : grid[0][c] # EMPTY

MaxDim == IF Rows > Cols THEN Rows ELSE Cols

\* Offsets k along (dr, dc) that the run of equal cells through (r, c) covers.
RunOffsets(grid, r, c, dr, dc) ==
    {k \in (-MaxDim)..MaxDim :
        \A j \in (-MaxDim)..MaxDim :
            ((0 <= j /\ j <= k) \/ (k <= j /\ j <= 0)) =>
                /\ InBoard(r + j * dr, c + j * dc)
                /\ grid[r + j * dr][c + j * dc] = grid[r][c]}

RunLength(grid, r, c, dr, dc) == Cardinality(RunOffsets(grid, r, c, dr, dc))

Axes == {<<0, 1>>, <<1, 0>>, <<1, 1>>, <<1, -1>>}

FourThrough(grid, r, c) == \E a \in Axes : RunLength(grid, r, c, a[1], a[2]) >= 4

AcceptedMove == call.op = "make_move" /\ call.ret = Some(TRUE)
RejectedMove == call.op = "make_move" /\ call.ret = Some(FALSE)

\* The player whose token lies in the last-move cell.
Mover == Grid[_last_move[1]][_last_move[2]]

\* C1: make_move(column) returns false and changes nothing (grid, current
\* player, last move, terminal flag, winner) whenever the column is out of
\* range, the column is full, or the game is already terminal.
C1_RejectedMoveChangesNothing ==
    [][(/\ call'.op = "make_move"
        /\ \/ call'.args[1] \notin Range0(Cols)
           \/ ColumnFull(Grid, call'.args[1])
           \/ _game_over)
       => /\ call'.ret = Some(FALSE)
          /\ Grid' = Grid
          /\ _current_player' = _current_player
          /\ _last_move' = _last_move
          /\ _game_over' = _game_over
          /\ _winner' = _winner]_vars

\* A move into a full column of a game still in progress was rejected.
C1_Witness ==
    /\ RejectedMove
    /\ ~_game_over
    /\ call.args[1] \in Range0(Cols)
    /\ ColumnFull(Grid, call.args[1])

\* C2: a successful make_move marks the game terminal with winner = the
\* player who just moved exactly when some axis through the just-placed cell
\* holds a contiguous run of >= 4 of that player's cells; otherwise the
\* winner stays unset.
C2_WinIffRunOfFour ==
    AcceptedMove =>
        LET won == FourThrough(Grid, _last_move[1], _last_move[2])
        IN  /\ won <=> (_game_over /\ _winner = Some(Mover))
            /\ ~won => _winner = None
            /\ Mover = next_player(_current_player)

\* A game won by a run that is not vertical.
C2_Witness ==
    /\ AcceptedMove
    /\ _winner # None
    /\ RunLength(Grid, _last_move[1], _last_move[2], 1, 0) < 4
    /\ RunLength(Grid, _last_move[1], _last_move[2], 1, -1) >= 4

\* C3: gravity.  A successful make_move into a column that holds k tokens
\* writes the mover's tag at row Rows-1-k of that column, changes no other
\* cell, and records (Rows-1-k, column) as the last move.
C3_Gravity ==
    [][(call'.op = "make_move" /\ call'.ret = Some(TRUE)) =>
        LET column == call'.args[1]
            k == ColumnHeight(Grid, column)
        IN  /\ \A r \in Range0(Rows), c \in Range0(Cols) :
                   Grid'[r][c] = IF r = Rows - 1 - k /\ c = column
                                 THEN _current_player
                                 ELSE Grid[r][c]
            /\ _last_move' = <<Rows - 1 - k, column>>]_vars

\* A token dropped on top of two others.
C3_Witness ==
    /\ AcceptedMove
    /\ _last_move = <<Rows - 3, call.args[1]>>
    /\ ColumnHeight(Grid, call.args[1]) = 3

\* C4: a successful move that creates no win and leaves no playable column
\* makes the board terminal with no winner; a move that fills the last cell
\* and completes four in a row is a win.
C4_DrawOnlyWithoutWin ==
    (AcceptedMove /\ NoPlayableColumn(Grid)) =>
        IF FourThrough(Grid, _last_move[1], _last_move[2])
        THEN _game_over /\ _winner = Some(Mover)
        ELSE _game_over /\ _winner = None

\* A drawn game: the board is full and the last move made no four.
C4_Witness ==
    /\ AcceptedMove
    /\ NoPlayableColumn(Grid)
    /\ ~FourThrough(Grid, _last_move[1], _last_move[2])
    /\ _game_over
    /\ _winner = None

\* C5: in every reachable board state get_valid_moves() is exactly the
\* columns whose top cell is Empty, in ascending order, and equals the list
\* derived from a snapshot taken at that moment.
C5_ValidMoves ==
    LET moves == get_valid_moves
    IN  /\ \A i, j \in DOMAIN moves : i < j => moves[i] < moves[j]
        /\ {moves[i] : i \in DOMAIN moves} = {c \in Range0(Cols) : Grid[0][c] = EMPTY}
        /\ GameState_get_valid_moves(View(get_state_arrays, get_state_result)) = moves

\* A game in progress with a full column between two playable ones.
C5_Witness ==
    /\ ~_game_over
    /\ Grid[0][0] = EMPTY
    /\ Grid[0][1] # EMPTY
    /\ Grid[0][2] = EMPTY

\* C6: reset() returns the board to the initial state (every cell Empty,
\* PlayerOne to move, no last move, not terminal, no winner), also after a
\* finished game; moves are accepted again afterwards.
C6_ResetRestoresInitial ==
    /\ [](call.op = "reset" =>
            /\ \A r \in Range0(Rows), c \in Range0(Cols) : Grid[r][c] = EMPTY
            /\ _current_player = PLAYER_1
            /\ _last_move = None
            /\ ~_game_over
            /\ _winner = None
            /\ PlayableInputs = Range0(Cols))
    /\ [][(call.op = "reset" /\ call'.op = "make_move") =>
            call'.ret = Some(TRUE)]_vars

\* The board was reset after a game that had ended.
C6_Witness == call.op = "reset" /\ call.game_over_before

\* C7: a GameState returned by get_state() is an independent snapshot: no
\* later make_move or reset changes its grid, current player, last move,
\* terminal flag or winner.
C7_SnapshotIndependent ==
    [][(state # None /\ call'.op \in {"make_move", "reset"}) =>
        /\ state' # None
        /\ View(arrays', state'[1]) = View(arrays, state[1])]_vars

\* A snapshot is held while the board has moved on from it and been reset.
C7_Witness ==
    /\ state # None
    /\ call.op = "reset"
    /\ View(arrays, state[1]).last_move # None
    /\ View(arrays, state[1]).board # Grid

\* C8: the state key is an injective function of (grid, player to move):
\* two snapshots get the same key exactly when they have the same grid and
\* the same player to move.
C8_KeyInjective ==
    (keys # <<>> /\ keys[1] # None /\ keys[2] # None) =>
        (keys[1] = keys[2] <=>
            /\ \A r \in Range0(KeyRows), c \in Range0(KeyCols) :
                   key_states[1].board[r][c] = key_states[2].board[r][c]
            /\ key_states[1].current_player = key_states[2].current_player)

\* Two snapshots with one grid and different players to move got different keys.
C8_Witness ==
    /\ keys # <<>> /\ keys[1] # None /\ keys[2] # None
    /\ key_states[1].board = key_states[2].board
    /\ key_states[1].board[0][0] = PLAYER_2
    /\ key_states[1].current_player # key_states[2].current_player
    /\ keys[1] # keys[2]

\* C9: get_value on a (state, action) never written returns 0.0 and leaves
\* every stored value unchanged; set_value(state, action, v) changes only the
\* value of that (state, action), and a following get_value returns v.
C9_GetSetFrame ==
    /\ [][call'.op = "get_value" =>
            /\ <<call'.args[1], call'.args[2]>> \notin written =>
                   call'.ret = Some(<<0, 1>>)
            /\ \A k \in DOMAIN _q_values :
                   k \in DOMAIN _q_values' /\ _q_values'[k] = _q_values[k]]_vars
    /\ [][call'.op = "set_value" =>
            /\ _q_values'[call'.args[1]].data[call'.args[2]] = call'.args[3]
            /\ \A k \in DOMAIN _q_values :
                   /\ k \in DOMAIN _q_values'
                   /\ \A a \in Range0(NumActions) :
                          <<k, a>> # <<call'.args[1], call'.args[2]>> =>
                              _q_values'[k].data[a] = _q_values[k].data[a]]_vars
    /\ [][(/\ call.op = "set_value" /\ call'.op = "get_value"
           /\ call'.args[1] = call.args[1] /\ call'.args[2] = call.args[2])
          => call'.ret = Some(call.args[3])]_vars

\* An action never written was read as 0.0 in a state whose entry holds a
\* value written for another action.
C9_Witness ==
    /\ call.op = "get_value"
    /\ call.ret = Some(<<0, 1>>)
    /\ <<call.args[1], call.args[2]>> \notin written
    /\ \E a \in Range0(NumActions) :
          /\ <<call.args[1], a>> \in written
          /\ _q_values[call.args[1]].data[a] # <<0, 1>>

\* C10: save followed by load leaves the table with exactly the saved
\* mapping (key set, vector length per key, value at every index), whatever
\* the table held before the load.
C10_SaveLoadRoundTrip ==
    call.op = "load" =>
        /\ saved # None
        /\ DOMAIN _q_values = DOMAIN saved[1]
        /\ \A k \in DOMAIN saved[1] :
              /\ DOMAIN _q_values[k].data = DOMAIN saved[1][k].data
              /\ \A i \in DOMAIN saved[1][k].data :
                     _q_values[k].data[i] = saved[1][k].data[i]
              /\ _q_values[k].dtype = saved[1][k].dtype

\* A table holding a whole and a fractional value was loaded back.
C10_Witness ==
    /\ call.op = "load"
    /\ \E k \in DOMAIN _q_values :
          /\ _q_values[k].data[0] = <<1, 1>>
          /\ _q_values[k].data[NumActions - 1] = <<-1, 2>>

\* C18: in every reachable board state, terminal implies that a run of at
\* least four equal tokens passes through the last-move cell or that no
\* column is playable; the winner is set only in terminal states and then
\* equals the tag in the last-move cell.
C18_TerminalAndWinner ==
    /\ _game_over =>
          \/ /\ _last_move # None
             /\ Mover # EMPTY
             /\ FourThrough(Grid, _last_move[1], _last_move[2])
          \/ NoPlayableColumn(Grid)
    /\ _winner # None =>
          /\ _game_over
          /\ _last_move # None
          /\ _winner = Some(Mover)

\* PlayerTwo has won on a board that still has a playable column.
C18_Witness ==
    /\ _game_over
    /\ _winner = Some(PLAYER_2)
    /\ ~NoPlayableColumn(Grid)

\* The other player, by tag.
Opponent(p) == 3 - p

\* C19: every successful make_move switches the current player, the move
\* that ends the game included, so in a terminal state with a winner the
\* current player is the winner's opponent; a rejected move leaves the
\* current player unchanged.
C19_PlayerSwitch ==
    /\ [][call'.op = "make_move" =>
            _current_player' = IF call'.ret = Some(TRUE)
                               THEN Opponent(_current_player)
                               ELSE _current_player]_vars
    /\ [](_winner # None => _current_player = Opponent(_winner[1]))

\* PlayerTwo made the winning move and PlayerOne is the current player.
C19_Witness ==
    /\ AcceptedMove
    /\ _game_over
    /\ _winner = Some(PLAYER_2)
    /\ _current_player = PLAYER_1

\* The value a table holds for (key, action): 0.0 when the key has no entry.
TableValue(table, key, action) ==
    IF key \in DOMAIN table THEN table[key].data[action] ELSE <<0, 1>>

\* The columns of a snapshot whose top cell is empty.
OpenColumns(s) == {c \in Range0(Cols) : s.board[0][c] = EMPTY}

\* The largest of a non-empty set of floats.
Largest(values) == CHOOSE v \in values : \A w \in values : LessEq(w, v)

\* C11: on the exploit branch, for a state with at least one valid move,
\* choose_action returns the valid column whose table value is maximal, the
\* smallest index among ties; a column that is not valid is never returned,
\* even when its stored value is larger than every valid column's.
C11_ExploitArgmaxOverValid ==
    [][(/\ call'.op = "choose_action"
        /\ call'.args[2] = "exploit"
        /\ OpenColumns(call'.args[1]) # {})
       => LET s == call'.args[1]
              a == call'.ret[1]
              value(c) == TableValue(_q_values, StateKey(s), c)
          IN  /\ a \in OpenColumns(s)
              /\ \A c \in OpenColumns(s) :
                     /\ LessEq(value(c), value(a))
                     /\ value(c) = value(a) => a <= c]_vars

\* The greedy choice was a column that is not the first valid one, while the
\* full column 0 held a larger value.
C11_Witness ==
    /\ call.op = "choose_action"
    /\ call.args = <<FullColumnState, "exploit">>
    /\ call.ret = Some(2)
    /\ Less(TableValue(_q_values, StateKey(FullColumnState), 2),
            TableValue(_q_values, StateKey(FullColumnState), 0))

\* The value the update formula gives a call of learn, read off the table
\* before the call.
TDExpected(table, s, action, reward, next_state) ==
    LET current == TableValue(table, StateKey(s), action)
        next_q == IF next_state.game_over \/ OpenColumns(next_state) = {}
                  THEN <<0, 1>>
                  ELSE Largest({TableValue(table, StateKey(next_state), c) :
                                   c \in OpenColumns(next_state)})
    IN  Add(current,
            Mul(config[1].learning_rate,
                Sub(Add(reward, Mul(config[1].discount_factor, next_q)), current)))

\* C12: learn(state, action, reward, next_state) sets the table value of
\* (state, action) to current + learning_rate * (reward + discount_factor *
\* next_q - current), next_q being 0 if next_state is terminal and otherwise
\* the largest table value over next_state's valid moves; no other action
\* value of `state` is changed.  (Stated for calls whose next_state is
\* terminal or has a valid move, where next_q is defined.)
C12_LearnUpdate ==
    [][(/\ call'.op = "learn"
        /\ call'.args[4].game_over \/ OpenColumns(call'.args[4]) # {})
       => LET s == call'.args[1]
              action == call'.args[2]
          IN  /\ TableValue(_q_values', StateKey(s), action) =
                     TDExpected(_q_values, s, action, call'.args[3], call'.args[4])
              /\ \A other \in Range0(NumActions) \ {action} :
                     TableValue(_q_values', StateKey(s), other) =
                         TableValue(_q_values, StateKey(s), other)]_vars

\* An update bootstrapped from a next state in progress whose largest value
\* over the valid columns is above 0: the value written is not
\* learning_rate * reward.
C12_Witness ==
    /\ call.op = "learn"
    /\ call.args[1] = EmptyState
    /\ call.args[4] = FullColumnState
    /\ Less(<<0, 1>>, TableValue(_q_values, StateKey(FullColumnState), 1))
    /\ TableValue(_q_values, StateKey(EmptyState), call.args[2]) #
           Mul(config[1].learning_rate, call.args[3])

RECURSIVE Pow(_, _)
Pow(x, n) == IF n = 0 THEN <<1, 1>> ELSE Mul(x, Pow(x, n - 1))

\* C13: after N calls of learn on an agent, epsilon equals
\* max(min_epsilon, initial_epsilon * epsilon_decay^N), for every N >= 0 and
\* every accepted AgentConfig.
C13_EpsilonClosedForm ==
    epsilon # None =>
        epsilon = max(config[1].min_epsilon,
                      Mul(config[1].initial_epsilon, Pow(config[1].epsilon_decay, learns)))

\* A float inside [0, 1], by numerator and denominator.
InUnitInterval(x) == 0 <= x[1] /\ x[1] <= x[2]

\* C17: constructing an AgentConfig with learning_rate or discount_factor
\* outside [0, 1] fails with an error and yields no config object; every
\* value inside [0, 1], the bounds included, is accepted.
C17_ConfigValidation ==
    [][call'.op = "AgentConfig" =>
        LET cfg == call'.args[1]
        IN  IF InUnitInterval(cfg.learning_rate) /\ InUnitInterval(cfg.discount_factor)
            THEN raised' = None /\ config' = Some(cfg)
            ELSE raised' # None /\ config' = None]_vars

\* A config with the learning rate at 1 and the discount factor at 0 was accepted.
C17_Witness ==
    /\ call.op = "AgentConfig"
    /\ config # None
    /\ config[1].learning_rate = <<1, 1>>
    /\ config[1].discount_factor = <<0, 1>>

\* C20: when learn is called with a next_state that is not terminal but has
\* no valid move, it treats next_state as terminal (next_q = 0), completes
\* the update of (state, action) and the epsilon decay, and does not raise.
C20_StuckNextStateIsTerminal ==
    [][(/\ call'.op = "learn"
        /\ ~call'.args[4].game_over
        /\ OpenColumns(call'.args[4]) = {})
       => /\ raised' = None
          /\ TableValue(_q_values', StateKey(call'.args[1]), call'.args[2]) =
                 TDExpected(_q_values, call'.args[1], call'.args[2],
                            call'.args[3], call'.args[4])
          /\ epsilon' = max(config[1].min_epsilon,
                            Mul(epsilon, config[1].epsilon_decay))]_vars

\* ------------------------------------------------------------ C14
\* The snapshot get_state() returns after the step.
PostState ==
    [board |-> arrays'[_board'],
     current_player |-> _current_player',
     last_move |-> _last_move',
     game_over |-> _game_over',
     winner |-> _winner']

\* The reward the trainer owes for a move the board accepted or rejected.
RewardRule(accepted, post) ==
    IF ~accepted THEN training[1].invalid_move_reward
    ELSE IF post.game_over /\ post.winner = Some(PLAYER_1) THEN training[1].win_reward
    ELSE IF post.game_over /\ post.winner = Some(PLAYER_2) THEN training[1].lose_reward
    ELSE IF post.game_over /\ post.winner = None THEN training[1].draw_reward
    ELSE Float(0, 1)

\* Snapshots of each kind of outcome: running, won by either player, drawn.
RewardStateInputs ==
    {EmptyState, WonState,
     [WonState EXCEPT !.winner = Some(PLAYER_2), !.current_player = PLAYER_1],
     [StuckState EXCEPT !.game_over = TRUE]}

\* C14: on each agent turn the trainer calls learn exactly once, with the
\* snapshot before the move, the action passed to the board, the reward and
\* the snapshot after the move; the reward is invalid_move_reward for a
\* rejected action, else win_reward, lose_reward or draw_reward when the
\* snapshot after the move is terminal with winner PlayerOne, PlayerTwo or
\* none, else 0; the episode goes on after the call; learn is called on no
\* other step, so never on the opponent's turn.
C14_LearnOncePerAgentTurn ==
    [][/\ (pc = "while" /\ ~_game_over /\ calls' = calls + 1) =>
            IF _current_player = PLAYER_1
            THEN /\ learns' = learns + 1
                 /\ call'.op = "make_move"
                 /\ learned' = Some(<<View(get_state_arrays, get_state_result),
                                      call'.args[1],
                                      RewardRule(call'.ret[1], PostState),
                                      PostState>>)
                 /\ raised' = None
                 /\ pc' = "while"
                 /\ episode' = episode
            ELSE learns' = learns /\ learned' = learned
       /\ (learns' # learns \/ learned' # learned) =>
            (pc = "while" /\ ~_game_over /\ _current_player = PLAYER_1)
       /\ \A accepted \in BOOLEAN, s \in RewardStateInputs :
            _calculate_reward(accepted, s) = RewardRule(accepted, s)
      ]_vars

\* The agent's fourth move wins the game and is rewarded with win_reward,
\* after the opponent has moved three times without a learn call.
C14_Witness ==
    /\ pc = "while"
    /\ _game_over
    /\ _winner = Some(PLAYER_1)
    /\ moves_made = 7
    /\ learns = 4
    /\ learned # None
    /\ learned[1][3] = training[1].win_reward
    /\ learned[1][4].winner = Some(PLAYER_1)
    /\ ~learned[1][1].game_over

\* ------------------------------------------------------------ C15
\* C15: after train() has returned, the file at model_path holds the table of
\* the last episode, for every episode count.
C15_FileHoldsTableAtReturn ==
    pc = "done" => (file # None /\ LoadedDict(file[1]) = _q_values)

Tokens(grid) ==
    Cardinality({cell \in Range0(Rows) \X Range0(Cols) : grid[cell[1]][cell[2]] # EMPTY})

\* C23: in every board state reachable from reset by make_move calls the
\* current player is PlayerOne or PlayerTwo, never Empty, and is PlayerOne
\* exactly when the number of tokens on the board is even.
C23_CurrentPlayerParity ==
    /\ _current_player \in {PLAYER_1, PLAYER_2}
    /\ _current_player = PLAYER_1 <=> Tokens(Grid) % 2 = 0

\* PlayerOne has won with the seventh token and PlayerTwo is the current player.
C23_Witness ==
    /\ _game_over
    /\ _winner = Some(PLAYER_1)
    /\ Tokens(Grid) = 7
    /\ _current_player = PLAYER_2

\* ------------------------------------------------------------ C24
\* C24: in every reachable board state that is not terminal at least one
\* column is playable: get_valid_moves() is not empty, on the board and on a
\* snapshot of it.
C24_PlayableWhileNotOver ==
    ~_game_over =>
        /\ \E c \in Range0(Cols) : Grid[0][c] = EMPTY
        /\ get_valid_moves # <<>>
        /\ GameState_get_valid_moves(View(get_state_arrays, get_state_result)) # <<>>

\* A game in progress with one empty cell left.
C24_Witness ==
    /\ ~_game_over
    /\ Tokens(Grid) = Rows * Cols - 1
    /\ Len(get_valid_moves) = 1

\* ------------------------------------------------------------ C25
\* Every line of four cells on the board: the first cell and the direction.
Windows ==
    {w \in Range0(Rows) \X Range0(Cols) \X Axes :
        InBoard(w[1] + 3 * w[3][1], w[2] + 3 * w[3][2])}

\* The token at step k of a window.
WindowCell(grid, w, k) == grid[w[1] + k * w[3][1]][w[2] + k * w[3][2]]

\* The windows of a grid filled with four equal tokens.
RunWindows(grid) ==
    {w \in Windows :
        /\ WindowCell(grid, w, 0) # EMPTY
        /\ \A k \in 1..3 : WindowCell(grid, w, k) = WindowCell(grid, w, 0)}

\* C25: in every reachable board state a run of four or more equal tokens
\* exists somewhere on the grid exactly when the board is terminal with a
\* winner, and every such run is the winner's.
C25_WholeBoardScan ==
    /\ RunWindows(Grid) # {} <=> (_game_over /\ _winner # None)
    /\ \A w \in RunWindows(Grid) : _winner = Some(WindowCell(Grid, w, 0))

\* A game won by a token placed inside a horizontal run, with tokens of the
\* run on both sides of it.
C25_Witness ==
    /\ _game_over
    /\ _winner # None
    /\ _last_move # None
    /\ LET offsets == RunOffsets(Grid, _last_move[1], _last_move[2], 0, 1)
       IN  /\ Cardinality(offsets) >= 4
           /\ \E k \in offsets : k < 0
           /\ \E k \in offsets : k > 0

\* ------------------------------------------------------------ C22
\* C22: over any sequence of learn calls epsilon never increases from one
\* call to the next and is never below min_epsilon after a call.
C22_EpsilonMonotoneFloored ==
    [][learns' = learns + 1 =>
          /\ LessEq(config[1].min_epsilon, epsilon')
          /\ learns >= 1 => LessEq(epsilon', epsilon)]_vars

\* ------------------------------------------------------------ C21
\* C21: on a board of Cols columns every table entry materialized by
\* get_value or set_value is a vector of exactly Cols action values, one for
\* each column of the board.
C21_VectorLengthIsColumns ==
    \A state_key \in DOMAIN _q_values :
        DOMAIN _q_values[state_key].data = Range0(Cols)

C27_AgentMoveAccepted ==
    [][(pc = "while" /\ ~_game_over /\ _current_player = PLAYER_1 /\ calls' # calls) =>
          /\ call'.op = "make_move"
          /\ call'.ret = Some(TRUE)
          /\ call'.args[1] \in OpenColumns(View(get_state_arrays, get_state_result))
          /\ learned'[1][2] = call'.args[1]
          /\ learned'[1][3] # training[1].invalid_move_reward
          /\ _current_player' = PLAYER_2
      ]_vars

\* The agent has just moved on a board that had a full column.
C27_Witness ==
    /\ pc = "while"
    /\ _current_player = PLAYER_2
    /\ call.op = "make_move"
    /\ call.ret = Some(TRUE)
    /\ learned # None
    /\ learned[1][4].board = Grid
    /\ OpenColumns(learned[1][1]) # Range0(Cols)
    /\ learned[1][2] \in OpenColumns(learned[1][1])

\* ------------------------------------------------------------ C28
\* C28: the snapshot after the move passed to learn never has winner
\* PlayerTwo and the reward passed is never lose_reward; the opponent's
\* winning move and the end of the episode it loses make no learn call, so
\* the last learn call of a lost game saw a board in progress.
C28_NoLoseReward ==
    [][/\ learned' # None =>
            /\ learned'[1][4].winner # Some(PLAYER_2)
            /\ learned'[1][3] # training[1].lose_reward
       /\ _winner' = Some(PLAYER_2) =>
            /\ learns' = learns
            /\ learned' = learned
            /\ learned' # None
            /\ ~learned'[1][4].game_over
      ]_vars

\* The opponent has won with the tenth token after five learn calls of the
\* agent, the last one rewarded with 0 on the board of nine tokens.
C28_Witness ==
    /\ pc = "while"
    /\ _game_over
    /\ _winner = Some(PLAYER_2)
    /\ learns = 5
    /\ learned[1][3] = Float(0, 1)
    /\ Tokens(learned[1][4].board) = 9

\* ------------------------------------------------------------ C29
\* The keys of a table that end in the tag of a player: the entries of the
\* states with that player to move.
KeysOf(table, player) ==
    {state_key \in DOMAIN table : state_key[Len(state_key)] = int_str(player)[1]}

AllZero(vector) == \A i \in DOMAIN vector.data : vector.data[i] = Float(0, 1)

\* C29: in a training run from an empty table learn writes only to states
\* with PlayerOne to move, every entry of a state with PlayerTwo to move is
\* the all-zero vector, and every update has next_q = 0: the value written
\* is current + learning_rate * (reward - current).
C29_TargetIsReward ==
    [][/\ \A state_key \in KeysOf(_q_values', PLAYER_2) : AllZero(_q_values'[state_key])
       /\ learns' = learns + 1 =>
            LET s == learned'[1][1]
                action == learned'[1][2]
                reward == learned'[1][3]
                current == TableValue(_q_values, StateKey(s), action)
            IN  /\ s.current_player = PLAYER_1
                /\ TableValue(_q_values', StateKey(s), action) =
                       Add(current, Mul(config[1].learning_rate, Sub(reward, current)))
                /\ \A state_key \in DOMAIN _q_values :
                       state_key # StateKey(s) => _q_values'[state_key] = _q_values[state_key]
      ]_vars

\* The table holds a learned value for a state with PlayerOne to move and
\* entries, read by learn, of states with PlayerTwo to move.
C29_Witness ==
    /\ learns >= 4
    /\ KeysOf(_q_values, PLAYER_2) # {}
    /\ \E state_key \in KeysOf(_q_values, PLAYER_1) : ~AllZero(_q_values[state_key])

====
